---- MODULE Spec2Model ----
(***************************************************************************)
(* DataDetective: the four variants of the NocoDB data viewer.             *)
(*   "fuzzy" : src/nocodb_ui.py (natural-language fuzzy search)            *)
(*   "tk"    : src/nocodb__tkinter_ui.py lines 1-91   (tkinter viewer)     *)
(*   "nl"    : src/nocodb__tkinter_ui.py lines 95-240 ("nocodb_ui copy 2") *)
(*   "plain" : src/nocodb__tkinter_ui.py lines 244-343 ("nocodb_ui copy")  *)
(* A Streamlit script is re-executed from its first line on every user     *)
(* event; pc is the position of the current run in the script.             *)
(***************************************************************************)
EXTENDS Integers, Sequences, FiniteSets, TLC

VARIABLES
    variant,        \* which of the four scripts runs
    env,            \* which environment variables are set (non-empty)
    pc,             \* position of the current script run
    event,          \* the widget event that triggered the current run
    page,           \* fetch session: page cursor
    all_records,    \* fetch session: records accumulated so far
    requests,       \* HTTP GETs issued by the current run (page numbers, in order)
    served,         \* pages the server answered with status 200 in the current fetch
    failed,         \* how the current fetch's failing request failed ("none" if none did)
    cache,          \* st.cache_data entry of fetch_nocodb_data
    df,             \* the Table of the current run
    filtered_df,    \* the Filtered View of the current run
    nl_query,       \* st.session_state["nl_query"]
    threshold,      \* the slider's value
    filter_details, \* what convert_nl_to_query returned in the current run
    code,           \* the expression string handed to eval in the current run
    evals,          \* the evaluations made by the current run: [code, names]
    llmCalls,       \* language-model calls made by the current run
    messages,       \* what the current run reported to the user
    shown,          \* what the main panel last rendered: [x, y, view]
    probe           \* inputs and results of the pure-function specifications

vars == <<variant, env, pc, event, page, all_records, requests, served, failed,
          cache, df, filtered_df, nl_query, threshold, filter_details, code,
          evals, llmCalls, messages, shown, probe>>

(***************************************************************************)
(* Bounds of the model                                                     *)
(***************************************************************************)
MaxPages == 2       \* full pages a server serves before the model stops asking
MaxLen == 4         \* longest expression string of the pure-function specifications

(***************************************************************************)
(* Program constants                                                       *)
(***************************************************************************)
limit == 100            \* page size
SliderMin == 0
SliderMax == 100
SliderDefault == 70

Variants == {"tk", "plain", "nl", "fuzzy"}
Paginated == {"plain", "nl", "fuzzy"}      \* the Streamlit variants
NeedsOpenAI == {"nl", "fuzzy"}

None == [kind |-> "None"]

(***************************************************************************)
(* Tables.  A record is one JSON object of a page; a Table (DataFrame) is  *)
(* its column labels and its rows in order.                                *)
(***************************************************************************)
Record(p, i) == [Id |-> (p - 1) * limit + i, name |-> "text"]

Page(p, n) == [i \in 1..n |-> Record(p, i)]

RecordKeys == <<"Id", "name">>

EmptyTable == [kind |-> "Table", columns |-> <<>>, rows |-> <<>>]

DataFrame(records) ==
    IF records = <<>> THEN EmptyTable
    ELSE [kind |-> "Table", columns |-> RecordKeys, rows |-> records]

IsTable(v) == v.kind = "Table"

IsEmpty(t) == t.rows = <<>>


(***************************************************************************)
(* heuristic_rename_columns: a column labelled "Field <n>" takes the first *)
(* non-null cell of the column as its label when that cell is a non-blank  *)
(* string.                                                                 *)
(***************************************************************************)
GenericLabels == {"Field 1", "Field 2", "Field 3"}

CellIsStr(rec, col) == col = "name"

heuristic_rename_columns(t) ==
    [t EXCEPT !.columns =
        [k \in DOMAIN t.columns |->
            IF /\ t.columns[k] \in GenericLabels
               /\ t.rows # <<>>
               /\ CellIsStr(t.rows[1], t.columns[k])
            THEN "renamed"
            ELSE t.columns[k]]]

(***************************************************************************)
(* Start of a script run: the credential checks                            *)
(***************************************************************************)
NoCache == [kind |-> "NoCache"]

\* a check that looks at the NocoDB token only
MissingToken(name) == name = "NOCODB_API_TOKEN" /\ ~env[name]

Missing(name) == ~env[name]

\* os.getenv("NOCODB_API_TOKEN"); if not API_TOKEN: report and halt
CheckApiToken ==
    /\ pc = "start"
    /\ IF Missing("NOCODB_API_TOKEN")
       THEN /\ messages' = messages \cup {"error: NOCODB_API_TOKEN is not set"}
            /\ pc' = IF variant = "tk" THEN "exited" ELSE "stopped"
       ELSE /\ pc' = IF variant \in NeedsOpenAI THEN "check_key" ELSE "fetch"
            /\ UNCHANGED messages
    /\ UNCHANGED <<variant, env, event, page, all_records, requests, served, failed,
                   cache, df, filtered_df, nl_query, threshold, filter_details,
                   code, evals, llmCalls, shown, probe>>

\* os.getenv("OPENAI_API_KEY"); if not OPENAI_API_KEY: warn and halt
CheckOpenAIKey ==
    /\ pc = "check_key"
    /\ IF Missing("OPENAI_API_KEY")
       THEN /\ messages' = messages \cup {"warning: OpenAI API Key is missing"}
            /\ pc' = "stopped"
       ELSE /\ pc' = "fetch"
            /\ UNCHANGED messages
    /\ UNCHANGED <<variant, env, event, page, all_records, requests, served, failed,
                   cache, df, filtered_df, nl_query, threshold, filter_details,
                   code, evals, llmCalls, shown, probe>>

(***************************************************************************)
(* fetch_nocodb_data (Streamlit variants): the pagination loop             *)
(***************************************************************************)
PageLens == {0, 1, limit - 1, limit}

\* an accumulation that puts the new page in front
ExtendFront(acc, data) == data \o acc

\* all_records.extend(data)
Extend(acc, data) == acc \o data

\* @st.cache_data: a call within the time-to-live returns a copy of the entry
FetchCached ==
    /\ pc = "fetch"
    /\ variant \in Paginated
    /\ cache # NoCache
    /\ df' = cache.value
    /\ pc' = "loaded"
    /\ UNCHANGED <<variant, env, event, page, all_records, requests, served, failed,
                   cache, filtered_df, nl_query, threshold, filter_details,
                   code, evals, llmCalls, messages, shown, probe>>

\* all_records = []; limit = 100; page = 1
FetchBegin ==
    /\ pc = "fetch"
    /\ variant \in Paginated
    /\ cache = NoCache
    /\ page' = 1
    /\ all_records' = <<>>
    /\ pc' = "fetching"
    /\ UNCHANGED <<variant, env, event, requests, served, failed,
                   cache, df, filtered_df, nl_query, threshold, filter_details,
                   code, evals, llmCalls, messages, shown, probe>>

\* the function returns `result`: the entry is stored and the caller's df bound
FetchReturn(result) ==
    /\ cache' = [kind |-> "Cached", value |-> result]
    /\ df' = result
    /\ pc' = "loaded"

\* one iteration of `while True`: the GET of the current page and what follows it
FetchPage ==
    /\ pc = "fetching"
    /\ page <= MaxPages
    /\ requests' = Append(requests, page)
    /\ \/ \E n \in PageLens :
            LET data == Page(page, n) IN
            /\ served' = Append(served, data)
            /\ IF data = <<>>
               THEN /\ FetchReturn(DataFrame(all_records))
                    /\ UNCHANGED <<all_records, page>>
               ELSE /\ all_records' = Extend(all_records, data)
                    /\ IF Len(data) < limit
                       THEN /\ FetchReturn(DataFrame(all_records'))
                            /\ UNCHANGED page
                       ELSE /\ page' = page + 1
                            /\ UNCHANGED <<cache, df, pc>>
            /\ UNCHANGED <<failed, messages>>
       \/ \* response.raise_for_status() raises requests.exceptions.HTTPError
          /\ failed' = "http"
          /\ messages' = messages \cup {"error: fetching data"}
          /\ FetchReturn(EmptyTable)
          /\ UNCHANGED <<served, all_records, page>>
       \/ \* requests.get raises ConnectionError / Timeout: not an HTTPError,
          \* so the except clause does not apply and the exception leaves the function
          /\ failed' = "transport"
          /\ pc' = "crashed"
          /\ UNCHANGED <<served, all_records, page, cache, df, messages>>
    /\ UNCHANGED <<variant, env, event, filtered_df, nl_query, threshold,
                   filter_details, code, evals, llmCalls, shown, probe>>

(***************************************************************************)
(* fetch_nocodb_data (tkinter variant): one GET, any RequestException      *)
(* caught; then the table is populated and the main loop entered           *)
(***************************************************************************)
FetchOnce ==
    /\ pc = "fetch"
    /\ variant = "tk"
    /\ requests' = Append(requests, 1)
    /\ \/ \E n \in PageLens :
            /\ served' = Append(served, Page(1, n))
            /\ df' = DataFrame(Page(1, n))
            /\ UNCHANGED <<failed, messages>>
       \/ \E how \in {"http", "transport"} :
            /\ failed' = how
            /\ messages' = messages \cup {"error: fetching data"}
            /\ df' = EmptyTable
            /\ UNCHANGED served
    /\ filtered_df' = df'
    /\ shown' = [x |-> Len(df'.rows), y |-> Len(df'.rows), view |-> df']
    /\ pc' = "mainloop"
    /\ UNCHANGED <<variant, env, event, page, all_records, cache, nl_query,
                   threshold, filter_details, code, evals, llmCalls, probe>>


(***************************************************************************)
(* Strings.  A string is a sequence of tokens; a token stands for one      *)
(* lexical unit of the Python text:                                        *)
(*   ( ) [ ] { }   the delimiters                                          *)
(*   0 .. 9        decimal digits                                          *)
(*   >=            the comparison operator                                 *)
(*   rev           the slice ::-1                                          *)
(*   THRESHOLD     the placeholder's field name                            *)
(*   df            the name df                                             *)
(*   col           df['Id']                                                *)
(*   sc            df['name'].apply(lambda x: isinstance(x, str) and       *)
(*                     fuzz.partial_ratio('q', x.lower()))                 *)
(*   mask          the same with  >= 50  inside the lambda                 *)
(*   del           df.drop(df.index, inplace=True)                         *)
(*   dup           df.loc[df.index.repeat(2)]                              *)
(*   API_TOKEN     the module-level credential variable                    *)
(*   open          the builtin                                             *)
(***************************************************************************)
Digits == <<"0", "1", "2", "3", "4", "5", "6", "7", "8", "9">>

IsDigit(tok) == \E d \in 1..10 : Digits[d] = tok

DigitVal(tok) == (CHOOSE d \in 1..10 : Digits[d] = tok) - 1

NameToks == {"df", "col", "sc", "mask", "del", "dup", "API_TOKEN", "open"}

\* the names a token looks up when it is evaluated
Needs(tok) ==
    CASE tok = "df" -> {"df"}
      [] tok = "col" -> {"df"}
      [] tok = "sc" -> {"df", "fuzz", "isinstance", "str"}
      [] tok = "mask" -> {"df", "fuzz", "isinstance", "str"}
      [] tok = "del" -> {"df"}
      [] tok = "dup" -> {"df"}
      [] OTHER -> {tok}

\* s.count(tok)
RECURSIVE Count(_, _)
Count(s, tok) ==
    IF s = <<>> THEN 0
    ELSE (IF Head(s) = tok THEN 1 ELSE 0) + Count(Tail(s), tok)

\* ')' * n
RECURSIVE Repeat(_, _)
Repeat(tok, n) == IF n <= 0 THEN <<>> ELSE <<tok>> \o Repeat(tok, n - 1)

\* a repair that appends whenever the two counts differ
balance_difference(s) ==
    LET open_parens == Count(s, "(")
        close_parens == Count(s, ")")
    IN  IF open_parens > close_parens
        THEN s \o Repeat(")", open_parens - close_parens)
        ELSE s \o Repeat(")", close_parens - open_parens)

\* balance_parentheses(s): as many ')' appended as '(' outnumber ')'
balance_parentheses(s) ==
    LET open_parens == Count(s, "(")
        close_parens == Count(s, ")")
    IN  IF open_parens > close_parens
        THEN s \o Repeat(")", open_parens - close_parens)
        ELSE s

\* str(n) for n >= 0: the decimal digits of n
RECURSIVE IntToStr(_)
IntToStr(n) ==
    IF n < 10 THEN <<Digits[n + 1]>>
    ELSE IntToStr(n \div 10) \o <<Digits[(n % 10) + 1]>>


(***************************************************************************)
(* str.format(THRESHOLD=threshold): "{{" and "}}" are literal braces, a    *)
(* replacement field "{THRESHOLD}" becomes str(threshold), and any other   *)
(* brace raises (KeyError, IndexError or ValueError)                       *)
(***************************************************************************)
\* position of the first "}" at or after i, 0 when there is none
RECURSIVE FieldEnd(_, _)
FieldEnd(s, i) ==
    IF i > Len(s) THEN 0
    ELSE IF s[i] = "}" THEN i
    ELSE FieldEnd(s, i + 1)

RECURSIVE Fmt(_, _, _, _)
Fmt(s, i, th, acc) ==
    IF i > Len(s) THEN [st |-> "ok", out |-> acc]
    ELSE IF s[i] = "{"
    THEN IF i < Len(s) /\ s[i + 1] = "{"
         THEN Fmt(s, i + 2, th, Append(acc, "{"))
         ELSE LET e == FieldEnd(s, i + 1) IN
              IF e = 0 THEN [st |-> "raise", out |-> <<>>]
              ELSE IF SubSeq(s, i + 1, e - 1) = <<"THRESHOLD">>
              THEN Fmt(s, e + 1, th, acc \o IntToStr(th))
              ELSE [st |-> "raise", out |-> <<>>]
    ELSE IF s[i] = "}"
    THEN IF i < Len(s) /\ s[i + 1] = "}"
         THEN Fmt(s, i + 2, th, Append(acc, "}"))
         ELSE [st |-> "raise", out |-> <<>>]
    ELSE Fmt(s, i + 1, th, Append(acc, s[i]))

Format(s, th) == Fmt(s, 1, th, <<>>)

(***************************************************************************)
(* eval(expression, globals, locals): Python parses the whole string       *)
(* first (SyntaxError, nothing evaluated), then evaluates it left to       *)
(* right.  The grammar of the token strings:                               *)
(*   expr    ::= primary [ ">=" primary ]                                  *)
(*   primary ::= atom { "[" ( [expr] "rev" | expr ) "]" | "(" [expr] ")" } *)
(*   atom    ::= name | digits | "(" [expr] ")" | "[" [expr] "]"           *)
(*             | "{" [expr] "}"                                            *)
(* x[e rev] is the slice x[e::-1]; x(e) is a call.  The strings the model  *)
(* draws hold at most one comparison.                                      *)
(***************************************************************************)
NoParse == [ok |-> FALSE, pos |-> 0, ast |-> <<"none">>]

Parsed(p, a) == [ok |-> TRUE, pos |-> p, ast |-> a]

Tok(s, i) == IF i >= 1 /\ i <= Len(s) THEN s[i] ELSE "<end>"

\* the position after the run of digits that starts at i
RECURSIVE DigitsEnd(_, _)
DigitsEnd(s, i) == IF IsDigit(Tok(s, i)) THEN DigitsEnd(s, i + 1) ELSE i

\* int(digits)
RECURSIVE StrToInt(_)
StrToInt(ds) ==
    IF ds = <<>> THEN 0
    ELSE 10 * StrToInt(SubSeq(ds, 1, Len(ds) - 1)) + DigitVal(ds[Len(ds)])

Closer(tok) == CASE tok = "(" -> ")" [] tok = "[" -> "]" [] OTHER -> "}"

DisplayKind(tok) == CASE tok = "(" -> "paren" [] tok = "[" -> "list" [] OTHER -> "set"

EmptyDisplay(tok) == CASE tok = "(" -> "tuple" [] tok = "[" -> "list" [] OTHER -> "dict"

RECURSIVE ParseExpr(_, _)
RECURSIVE ParsePrimary(_, _)
RECURSIVE ParseTrailers(_, _, _)
RECURSIVE ParseAtom(_, _)
RECURSIVE Subscripted(_, _, _)
RECURSIVE Called(_, _, _)

ParseAtom(s, i) ==
    LET tok == Tok(s, i) IN
    IF tok \in NameToks THEN Parsed(i + 1, <<"name", tok>>)
    ELSE IF IsDigit(tok)
    THEN LET e == DigitsEnd(s, i)
             ds == SubSeq(s, i, e - 1)
         IN  \* a decimal literal with a leading zero is a SyntaxError unless it is all zeros
             IF Len(ds) > 1 /\ ds[1] = "0" /\ StrToInt(ds) # 0 THEN NoParse
             ELSE Parsed(e, <<"num", StrToInt(ds)>>)
    ELSE IF tok \in {"(", "[", "{"}
    THEN IF Tok(s, i + 1) = Closer(tok)
         THEN Parsed(i + 2, <<"empty", EmptyDisplay(tok)>>)
         ELSE LET r == ParseExpr(s, i + 1) IN
              IF r.ok /\ Tok(s, r.pos) = Closer(tok)
              THEN Parsed(r.pos + 1, <<DisplayKind(tok), r.ast>>)
              ELSE NoParse
    ELSE NoParse

\* the subscript that starts at i, its first expression parsed as r
Subscripted(s, base, r) ==
    IF ~r.ok THEN NoParse
    ELSE IF Tok(s, r.pos) = "]"
    THEN ParseTrailers(s, r.pos + 1, <<"sub", base, r.ast>>)
    ELSE IF Tok(s, r.pos) = "rev" /\ Tok(s, r.pos + 1) = "]"
    THEN ParseTrailers(s, r.pos + 2, <<"sub", base, <<"revfrom", r.ast>>>>)
    ELSE NoParse

\* the call that starts at i, its argument parsed as r
Called(s, base, r) ==
    IF r.ok /\ Tok(s, r.pos) = ")"
    THEN ParseTrailers(s, r.pos + 1, <<"call", base, r.ast>>)
    ELSE NoParse

ParseTrailers(s, i, base) ==
    IF Tok(s, i) = "["
    THEN IF Tok(s, i + 1) = "rev"
         THEN IF Tok(s, i + 2) = "]"
              THEN ParseTrailers(s, i + 3, <<"sub", base, <<"rev">>>>)
              ELSE NoParse
         ELSE Subscripted(s, base, ParseExpr(s, i + 1))
    ELSE IF Tok(s, i) = "("
    THEN IF Tok(s, i + 1) = ")"
         THEN ParseTrailers(s, i + 2, <<"call", base, <<"noarg">>>>)
         ELSE Called(s, base, ParseExpr(s, i + 1))
    ELSE Parsed(i, base)

ParsePrimary(s, i) ==
    LET a == ParseAtom(s, i) IN
    IF a.ok THEN ParseTrailers(s, a.pos, a.ast) ELSE NoParse

ParseExpr(s, i) ==
    LET l == ParsePrimary(s, i) IN
    IF ~l.ok THEN NoParse
    ELSE IF Tok(s, l.pos) # ">=" THEN l
    ELSE LET r == ParsePrimary(s, l.pos + 1) IN
         IF r.ok THEN Parsed(r.pos, <<"ge", l.ast, r.ast>>) ELSE NoParse

\* the whole string must be one expression
Parse(s) ==
    LET r == ParseExpr(s, 1) IN
    IF r.ok /\ r.pos = Len(s) + 1 THEN r ELSE NoParse


(***************************************************************************)
(* Values of the evaluator.  The name df denotes the caller's DataFrame    *)
(* object itself (DfRef): a method that works in place changes what every  *)
(* holder of the object sees.  A Series carries its index labels (the row  *)
(* Ids), which pandas aligns on.  Operands of >= that the model's strings  *)
(* use are Series and numbers; any other operand raises TypeError.         *)
(***************************************************************************)
DfRef == [kind |-> "dfref"]

IntV(n) == [kind |-> "int", n |-> n]

BoolV(b) == [kind |-> "bool", n |-> IF b THEN 1 ELSE 0]

Series(dtype, cells) == [kind |-> "Series", dtype |-> dtype, cells |-> cells]

\* fuzz.partial_ratio('q', name.lower()) of a row: 0, 50, 100, 0, ...
Score(rec) == ((rec.Id - 1) % 3) * 50

Deref(v, t) == IF v.kind = "dfref" THEN t ELSE v

\* the subsequence of s whose elements carry an Id in keep
SelectRows(s, keep) == LET Keep(r) == r.Id \in keep IN SelectSeq(s, Keep)

\* the labels a boolean Series holds True for
TrueIds(cells) == {cells[k].Id : k \in {j \in DOMAIN cells : cells[j].v = 1}}

Reverse(s) == [k \in 1..Len(s) |-> s[Len(s) + 1 - k]]

\* s[from::-1], from a position counted from 0; s[::-1] when from is None
Slice(from) == [kind |-> "slice", from |-> from]

RevFrom(s, from) ==
    IF from = None THEN Reverse(s)
    ELSE Reverse(SubSeq(s, 1, IF from.n + 1 < Len(s) THEN from.n + 1 ELSE Len(s)))

Ids(s) == {s[k].Id : k \in DOMAIN s}

CellOf(cells, id) == cells[CHOOSE k \in DOMAIN cells : cells[k].Id = id]

Ok(v, t) == [st |-> "ok", val |-> v, df |-> t]

Raise(t) == [st |-> "raise", val |-> None, df |-> t]

IsNum(v) == v.kind \in {"int", "bool"}

\* base[key], with t the DataFrame as it is when the subscription is made
Subscript(b, key, t) ==
    LET base == Deref(b, t) IN
    CASE base.kind = "Table" ->
            IF key.kind = "slice"
            THEN Ok([base EXCEPT !.rows = RevFrom(base.rows, key.from)], t)
            ELSE IF key.kind = "Series" /\ key.dtype = "bool"
            THEN IF Ids(base.rows) \subseteq Ids(key.cells)
                 THEN Ok([base EXCEPT !.rows = SelectRows(base.rows, TrueIds(key.cells))], t)
                 ELSE Raise(t)
            ELSE IF \/ key.kind = "list" /\ key.items = <<>>
                    \/ key.kind = "Series" /\ key.cells = <<>>
            THEN Ok([kind |-> "Table", columns |-> <<>>,
                     rows |-> [k \in DOMAIN base.rows |-> [Id |-> base.rows[k].Id]]], t)
            ELSE Raise(t)
      [] base.kind = "Series" ->
            IF key.kind = "slice"
            THEN Ok([base EXCEPT !.cells = RevFrom(base.cells, key.from)], t)
            ELSE IF key.kind = "Series" /\ key.dtype = "bool"
            THEN IF Ids(base.cells) \subseteq Ids(key.cells)
                 THEN Ok([base EXCEPT !.cells = SelectRows(base.cells, TrueIds(key.cells))], t)
                 ELSE Raise(t)
            ELSE IF key.kind = "int"
            THEN IF key.n + 1 \in Ids(base.cells)
                 THEN Ok([kind |-> IF base.dtype = "bool" THEN "bool" ELSE "int",
                          n |-> CellOf(base.cells, key.n + 1).v], t)
                 ELSE Raise(t)
            ELSE IF key.kind = "list" /\ key.items = <<>>
            THEN Ok([base EXCEPT !.cells = <<>>], t)
            ELSE Raise(t)
      [] base.kind = "list" ->
            IF key.kind = "slice" THEN Ok([base EXCEPT !.items = RevFrom(base.items, key.from)], t)
            ELSE IF IsNum(key) /\ key.n = 0 /\ base.items # <<>>
            THEN Ok(base.items[1], t)
            ELSE Raise(t)
      [] base.kind = "tuple" ->
            IF key.kind = "slice" THEN Ok(base, t) ELSE Raise(t)
      [] base.kind = "str" ->
            IF key.kind = "slice" \/ IsNum(key) THEN Ok(base, t) ELSE Raise(t)
      [] OTHER -> Raise(t)

\* a >= b
Ge(a, b, t) ==
    IF IsNum(a) /\ IsNum(b) THEN Ok(BoolV(a.n >= b.n), t)
    ELSE IF a.kind = "Series" /\ IsNum(b)
    THEN Ok(Series("bool", [k \in DOMAIN a.cells |->
                [Id |-> a.cells[k].Id, v |-> IF a.cells[k].v >= b.n THEN 1 ELSE 0]]), t)
    ELSE IF IsNum(a) /\ b.kind = "Series"
    THEN Ok(Series("bool", [k \in DOMAIN b.cells |->
                [Id |-> b.cells[k].Id, v |-> IF a.n >= b.cells[k].v THEN 1 ELSE 0]]), t)
    ELSE IF a.kind = "Series" /\ b.kind = "Series"
    THEN IF /\ Len(a.cells) = Len(b.cells)
            /\ \A k \in DOMAIN a.cells : a.cells[k].Id = b.cells[k].Id
         THEN Ok(Series("bool", [k \in DOMAIN a.cells |->
                [Id |-> a.cells[k].Id,
                 v |-> IF a.cells[k].v >= b.cells[k].v THEN 1 ELSE 0]]), t)
         ELSE Raise(t)
    ELSE IF a.kind = "str" /\ b.kind = "str" THEN Ok(BoolV(TRUE), t)
    ELSE Raise(t)

\* the value of a name, with t the DataFrame as it is when the name is evaluated
NameValue(tok, t) ==
    CASE tok = "df" -> Ok(DfRef, t)
      [] tok = "col" ->
            Ok(Series("int", [k \in DOMAIN t.rows |->
                [Id |-> t.rows[k].Id, v |-> t.rows[k].Id]]), t)
      [] tok = "sc" ->
            Ok(Series("int", [k \in DOMAIN t.rows |->
                [Id |-> t.rows[k].Id, v |-> Score(t.rows[k])]]), t)
      [] tok = "mask" ->
            Ok(Series("bool", [k \in DOMAIN t.rows |->
                [Id |-> t.rows[k].Id,
                 v |-> IF Score(t.rows[k]) >= 50 THEN 1 ELSE 0]]), t)
      [] tok = "del" -> Ok(None, [t EXCEPT !.rows = <<>>])
      [] tok = "dup" ->
            Ok([t EXCEPT !.rows = [k \in 1..(2 * Len(t.rows)) |-> t.rows[(k + 1) \div 2]]], t)
      [] tok = "open" -> Ok([kind |-> "builtin"], t)
      [] OTHER -> Ok([kind |-> "str"], t)

Hashable(v) == v.kind \in {"int", "bool", "str", "None", "builtin", "tuple"}

\* [x] with the item's evaluation r
ListOf(r) ==
    IF r.st = "raise" THEN r ELSE Ok([kind |-> "list", items |-> <<r.val>>], r.df)

\* {x} with the item's evaluation r
SetOf(r) ==
    IF r.st = "raise" THEN r
    ELSE IF Hashable(r.val) THEN Ok([kind |-> "set"], r.df)
    ELSE Raise(r.df)

\* base[key] with the evaluations of the two: the key is evaluated after the base
SubscriptOf(b, k) ==
    IF k.st = "raise" THEN k ELSE Subscript(b.val, Deref(k.val, k.df), k.df)

\* base[bound::-1] with the evaluations of the two: a bound that is no integer raises
SliceOf(b, k) ==
    IF k.st = "raise" THEN k
    ELSE IF k.val.kind = "int" THEN Subscript(b.val, Slice(k.val), k.df)
    ELSE Raise(k.df)

\* callee(arg) with the argument's evaluation: the callees of the model's strings
\* (tables, Series, numbers, None, displays) are not callable, TypeError
CallOf(a) == IF a.st = "raise" THEN a ELSE Raise(a.df)

\* l >= r with the evaluations of the two
GeOf(l, r) ==
    IF r.st = "raise" THEN r ELSE Ge(Deref(l.val, r.df), Deref(r.val, r.df), r.df)

\* ast evaluated with DataFrame t and visible names ns
RECURSIVE Eval(_, _, _)
RECURSIVE EvalKey(_, _, _)
RECURSIVE EvalRight(_, _, _)
RECURSIVE EvalArg(_, _, _)

\* the subscript keyAst of a base whose evaluation is b
EvalKey(b, keyAst, ns) ==
    IF b.st = "raise" THEN b
    ELSE IF keyAst[1] = "rev" THEN Subscript(b.val, Slice(None), b.df)
    ELSE IF keyAst[1] = "revfrom" THEN SliceOf(b, Eval(keyAst[2], b.df, ns))
    ELSE SubscriptOf(b, Eval(keyAst, b.df, ns))

\* the argument argAst of a call whose callee's evaluation is c
EvalArg(c, argAst, ns) ==
    IF c.st = "raise" THEN c
    ELSE IF argAst[1] = "noarg" THEN Raise(c.df)
    ELSE CallOf(Eval(argAst, c.df, ns))

\* the right operand rightAst of a comparison whose left operand's evaluation is l
EvalRight(l, rightAst, ns) ==
    IF l.st = "raise" THEN l ELSE GeOf(l, Eval(rightAst, l.df, ns))

Eval(ast, t, ns) ==
    CASE ast[1] = "name" ->
            IF Needs(ast[2]) \subseteq ns THEN NameValue(ast[2], t) ELSE Raise(t)
      [] ast[1] = "num" -> Ok(IntV(ast[2]), t)
      [] ast[1] = "empty" ->
            Ok(IF ast[2] = "list" THEN [kind |-> "list", items |-> <<>>]
               ELSE [kind |-> ast[2]], t)
      [] ast[1] = "paren" -> Eval(ast[2], t, ns)
      [] ast[1] = "list" -> ListOf(Eval(ast[2], t, ns))
      [] ast[1] = "set" -> SetOf(Eval(ast[2], t, ns))
      [] ast[1] = "sub" -> EvalKey(Eval(ast[2], t, ns), ast[3], ns)
      [] ast[1] = "ge" -> EvalRight(Eval(ast[2], t, ns), ast[3], ns)
      [] ast[1] = "call" -> EvalArg(Eval(ast[2], t, ns), ast[3], ns)
      [] OTHER -> Raise(t)

\* the expression's value: the name df alone yields the caller's DataFrame itself
Result(r) == IF r.st = "raise" THEN r ELSE Ok(Deref(r.val, r.df), r.df)

EvalParsed(p, t, ns) == IF ~p.ok THEN Raise(t) ELSE Result(Eval(p.ast, t, ns))

\* eval(s, globals, locals) with DataFrame t bound to df and ns the names visible:
\* SyntaxError, or the evaluation
PyEval(s, t, ns) == EvalParsed(Parse(s), t, ns)

(***************************************************************************)
(* apply_filter_code(df, filter_code)                                      *)
(***************************************************************************)
\* safe_globals and local_vars: the names the expression can look up
SafeNames == {"isinstance", "str", "int", "float", "fuzz", "df"}

Evaluation(s, ns) == [code |-> s, names |-> ns]

\* the second except clause: the retry's outcome decides between its value and df
AfterRetry(filter_code, balanced_code, second) ==
    [result |-> IF second.st = "ok" THEN second.val ELSE second.df,
     df |-> second.df,
     error |-> second.st = "raise",
     evals |-> <<Evaluation(filter_code, SafeNames), Evaluation(balanced_code, SafeNames)>>]

\* the first except clause: balanced_code = balance_parentheses(filter_code), eval again
Retry(filter_code, balanced_code, t) ==
    AfterRetry(filter_code, balanced_code, PyEval(balanced_code, t, SafeNames))

\* a first except clause that gives up at once
AfterFirstNoRetry(filter_code, first) ==
    [result |-> IF first.st = "ok" THEN first.val ELSE first.df,
     df |-> first.df,
     error |-> first.st = "raise",
     evals |-> <<Evaluation(filter_code, SafeNames)>>]

AfterFirst(filter_code, first) ==
    IF first.st = "ok"
    THEN [result |-> first.val, df |-> first.df, error |-> FALSE,
          evals |-> <<Evaluation(filter_code, SafeNames)>>]
    ELSE Retry(filter_code, balance_parentheses(filter_code), first.df)

\* try: eval / except Exception: balance, eval / except Exception: report, return df
apply_filter_code(t, filter_code) ==
    AfterFirst(filter_code, PyEval(filter_code, t, SafeNames))

(***************************************************************************)
(* Query text: a string of blanks and letters                              *)
(***************************************************************************)
\* str.strip()
RECURSIVE LStrip(_)
LStrip(s) == IF s # <<>> /\ Head(s) = " " THEN LStrip(Tail(s)) ELSE s

\* a strip that removes nothing
StripNothing(s) == s

Strip(s) == Reverse(LStrip(Reverse(LStrip(s))))

Queries == {<<>>, <<" ">>, <<"q">>, <<" ", "q">>}

(***************************************************************************)
(* The language model's answers.  An answer is the completion's content:   *)
(* in the fuzzy variant what ast.literal_eval makes of it (or that it      *)
(* raises), in the nl variant the text itself.                             *)
(***************************************************************************)
FilterCodes == {
    <<"df", "[", "sc", ">=", "{", "THRESHOLD", "}", "]">>,
    <<"(", "df", "[", "sc", ">=", "{", "THRESHOLD", "}", "]">>,
    <<"df", "[", "(", "sc", ">=", "{", "THRESHOLD", "}">>,
    <<"df", "[", "sc", ">=", "5", "0", "]">>,
    <<"df", "[", "mask", "]", ")">>,
    <<"df", "[", "rev", "]">>,
    <<"del">>,
    <<"dup">>,
    <<"df", "[", "API_TOKEN", "]">>,
    <<"df", "[", "col", ">=", "{", "}", "]">> }

Both == {"filter_code", "reasoning"}

Answers ==
    {[kind |-> "unparseable"], [kind |-> "int"],
     [kind |-> "list", items |-> Both], [kind |-> "str", words |-> Both]}
    \cup {[kind |-> "dict", keys |-> ks, filter_code |-> <<"df">>] :
             ks \in (SUBSET Both) \ {Both}}
    \cup {[kind |-> "dict", keys |-> Both, filter_code |-> c] : c \in FilterCodes}

\* key in obj
Contains(obj, key) ==
    CASE obj.kind = "dict" -> [st |-> "ok", b |-> key \in obj.keys]
      [] obj.kind = "list" -> [st |-> "ok", b |-> key \in obj.items]
      [] obj.kind = "str" -> [st |-> "ok", b |-> key \in obj.words]
      [] OTHER -> [st |-> "raise", b |-> FALSE]

\* the outcomes of openai.ChatCompletion.create
LlmOutcomes == {[kind |-> "api_error"]} \cup Answers

\* convert_nl_to_query of the fuzzy variant: [ret, called, error]
convert_nl_to_query(nl_text, outcome) ==
    IF Strip(nl_text) = <<>>
    THEN [ret |-> None, called |-> FALSE, error |-> FALSE]
    ELSE IF outcome.kind \in {"api_error", "unparseable"}
    THEN [ret |-> None, called |-> TRUE, error |-> TRUE]
    ELSE LET a == Contains(outcome, "filter_code")
             b == Contains(outcome, "reasoning")
         IN  IF a.st = "raise" \/ (a.b /\ b.st = "raise")
             THEN [ret |-> None, called |-> TRUE, error |-> TRUE]
             ELSE IF a.b /\ b.b
             THEN [ret |-> outcome, called |-> TRUE, error |-> FALSE]
             ELSE [ret |-> None, called |-> TRUE, error |-> FALSE]


(***************************************************************************)
(* The script run after the credential checks and the fetch                *)
(***************************************************************************)
NoEvent == [type |-> "none", text |-> <<>>]

NoShow == [kind |-> "nothing"]

Thresholds == {SliderMin, SliderDefault, SliderMax}

\* a new run of the script: its locals and what it put on the page are gone
NewRun(ev) ==
    /\ pc' = "start"
    /\ event' = ev
    /\ page' = 1
    /\ all_records' = <<>>
    /\ requests' = <<>>
    /\ served' = <<>>
    /\ failed' = "none"
    /\ df' = EmptyTable
    /\ filtered_df' = EmptyTable
    /\ filter_details' = None
    /\ code' = <<>>
    /\ evals' = <<>>
    /\ llmCalls' = 0
    /\ messages' = {}
    /\ shown' = NoShow

\* df = fetch_nocodb_data(); if df.empty: warn and stop; heuristic renaming (fuzzy)
LoadData ==
    /\ pc = "loaded"
    /\ IF IsEmpty(df)
       THEN /\ messages' = messages \cup {"warning: No data available from NocoDB"}
            /\ pc' = "stopped"
            /\ UNCHANGED df
       ELSE /\ df' = IF variant = "fuzzy" THEN heuristic_rename_columns(df) ELSE df
            /\ pc' = IF variant = "plain" THEN "display" ELSE "buttons"
            /\ UNCHANGED messages
    /\ filtered_df' = IF variant = "plain" /\ ~IsEmpty(df) THEN df ELSE filtered_df
    /\ UNCHANGED <<variant, env, event, page, all_records, requests, served, failed,
                   cache, nl_query, threshold, filter_details, code, evals,
                   llmCalls, shown, probe>>

\* if st.sidebar.button("Search"): store the text and rerun;
\* (fuzzy) if st.sidebar.button("Reset Filters"): clear it and rerun
Buttons ==
    /\ pc = "buttons"
    /\ IF event.type = "search"
       THEN /\ nl_query' = event.text
            /\ NewRun(NoEvent)
       ELSE IF event.type = "reset" /\ variant = "fuzzy"
       THEN /\ nl_query' = <<>>
            /\ NewRun(NoEvent)
       ELSE /\ pc' = "filter"
            /\ filtered_df' = df
            /\ UNCHANGED <<event, page, all_records, requests, served, failed, df,
                           nl_query, filter_details, code, evals, llmCalls,
                           messages, shown>>
    /\ UNCHANGED <<variant, env, cache, threshold, probe>>

\* if filter_details and "filter_code" in filter_details
Given(ret) == ret # None /\ Contains(ret, "filter_code").b

\* what the run does with convert_nl_to_query's return r
Translated(r) ==
    /\ filter_details' = r.ret
    /\ llmCalls' = llmCalls + (IF r.called THEN 1 ELSE 0)
    /\ messages' = messages
          \cup (IF r.error THEN {"error: processing query"} ELSE {})
          \cup (IF Given(r.ret) THEN {} ELSE {"info: No filter code was generated"})
    /\ pc' = IF Given(r.ret) THEN "apply" ELSE "display"

\* fuzzy: if st.session_state["nl_query"].strip(): filter_details = convert_nl_to_query(...)
Translate ==
    /\ pc = "filter"
    /\ variant = "fuzzy"
    /\ IF Strip(nl_query) = <<>>
       THEN /\ pc' = "display"
            /\ UNCHANGED <<filter_details, llmCalls, messages>>
       ELSE \E outcome \in LlmOutcomes :
                Translated(convert_nl_to_query(nl_query, outcome))
    /\ UNCHANGED <<variant, env, event, page, all_records, requests, served, failed,
                   cache, df, filtered_df, nl_query, threshold, code, evals,
                   shown, probe>>

\* filtered_df = apply_filter_code(df, modified_filter_code), r what it returned
Applied(modified_filter_code, r) ==
    /\ code' = modified_filter_code
    /\ evals' = evals \o r.evals
    /\ df' = r.df
    /\ filtered_df' = r.result
    /\ messages' = messages
          \cup (IF r.error THEN {"error: applying filter code"} ELSE {})
    /\ pc' = "display"

\* f the outcome of filter_details["filter_code"].format(THRESHOLD=threshold)
Formatted(f) ==
    IF f.st = "raise"
    THEN /\ pc' = "crashed"
         /\ UNCHANGED <<df, filtered_df, code, evals, messages>>
    ELSE Applied(f.out, apply_filter_code(df, f.out))

\* a substitution that always takes the slider's default
ApplyFilterDefault ==
    /\ pc = "apply"
    /\ IF filter_details.kind # "dict"
       THEN /\ pc' = "crashed"
            /\ UNCHANGED <<df, filtered_df, code, evals, messages>>
       ELSE Formatted(Format(filter_details.filter_code, SliderDefault))
    /\ UNCHANGED <<variant, env, event, page, all_records, requests, served, failed,
                   cache, nl_query, threshold, filter_details, llmCalls, shown, probe>>

\* modified_filter_code = filter_details["filter_code"].format(THRESHOLD=threshold)
\* filtered_df = apply_filter_code(df, modified_filter_code)
ApplyFilter ==
    /\ pc = "apply"
    /\ IF filter_details.kind # "dict"
       THEN \* filter_details["filter_code"] on a list or a str: TypeError
            /\ pc' = "crashed"
            /\ UNCHANGED <<df, filtered_df, code, evals, messages>>
       ELSE Formatted(Format(filter_details.filter_code, threshold))
    /\ UNCHANGED <<variant, env, event, page, all_records, requests, served, failed,
                   cache, nl_query, threshold, filter_details, llmCalls, shown, probe>>

(***************************************************************************)
(* The nl variant: convert_nl_to_query returns the completion's text when  *)
(* it contains "df[", and the script evaluates it with a bare eval         *)
(***************************************************************************)
NlCodes == {
    <<"df", "[", "col", ">=", "5", "0", "]">>,
    <<"df", "[", "col", ">=", "5", "0">>,
    <<"df", "[", "API_TOKEN", "]">>,
    <<"df", "[", "rev", "]">>,
    <<"col", ">=", "5", "0">>,
    <<"dup">> }

NlOutcomes == {[kind |-> "api_error", text |-> <<>>]}
                  \cup {[kind |-> "text", text |-> c] : c \in NlCodes}

\* "df[" in structured_filter: the text of col, sc and mask starts with df[
HasDfBracket(s) ==
    \/ \E i \in 1..Len(s) : s[i] \in {"col", "sc", "mask"}
    \/ \E i \in 1..(Len(s) - 1) : s[i] = "df" /\ s[i + 1] = "["

\* convert_nl_to_query of the nl variant: [ret, called, error], ret a string or None
convert_nl_to_query_nl(nl_text, outcome) ==
    IF Strip(nl_text) = <<>>
    THEN [ret |-> None, called |-> FALSE, error |-> FALSE]
    ELSE IF outcome.kind = "api_error"
    THEN [ret |-> None, called |-> TRUE, error |-> TRUE]
    ELSE IF HasDfBracket(outcome.text)
    THEN [ret |-> [kind |-> "str", text |-> outcome.text], called |-> TRUE, error |-> FALSE]
    ELSE [ret |-> None, called |-> TRUE, error |-> FALSE]

\* the names of the script's module namespace, and the builtins, that eval(s) can look up
ModuleNames == {"os", "requests", "pd", "st", "openai", "API_TOKEN", "OPENAI_API_KEY",
                "BASE_API_URL", "fetch_nocodb_data", "convert_nl_to_query", "df",
                "nl_query", "filtered_df", "structured_query"}

Builtins == {"isinstance", "str", "int", "float", "open", "eval", "exec", "__import__"}

\* try: filtered_df = eval(structured_query) / except Exception: warn; e its outcome
EvaluatedNl(structured_query, e) ==
    /\ code' = structured_query
    /\ evals' = Append(evals, Evaluation(structured_query, ModuleNames \cup Builtins))
    /\ df' = e.df
    /\ filtered_df' = IF e.st = "ok" THEN e.val ELSE filtered_df
    /\ messages' = messages
          \cup (IF e.st = "raise" THEN {"warning: Could not apply filter"} ELSE {})

\* what the run does with convert_nl_to_query's return r
TranslatedNl(r) ==
    /\ filter_details' = r.ret
    /\ llmCalls' = llmCalls + (IF r.called THEN 1 ELSE 0)
    /\ IF r.ret = None
       THEN /\ messages' = messages
                 \cup (IF r.error THEN {"error: processing query"} ELSE {})
            /\ UNCHANGED <<df, filtered_df, code, evals>>
       ELSE EvaluatedNl(r.ret.text, PyEval(r.ret.text, df, ModuleNames \cup Builtins))

\* if st.session_state["nl_query"]: structured_query = convert_nl_to_query(...)
\*     if structured_query: try: filtered_df = eval(structured_query) except Exception: warn
TranslateNl ==
    /\ pc = "filter"
    /\ variant = "nl"
    /\ IF nl_query = <<>>
       THEN UNCHANGED <<df, filtered_df, filter_details, code, evals, llmCalls, messages>>
       ELSE \E outcome \in NlOutcomes :
                TranslatedNl(convert_nl_to_query_nl(nl_query, outcome))
    /\ pc' = "display"
    /\ UNCHANGED <<variant, env, event, page, all_records, requests, served, failed,
                   cache, nl_query, threshold, shown, probe>>

HasShape(v) == v.kind \in {"Table", "Series"}

NRows(v) == IF v.kind = "Series" THEN Len(v.cells) ELSE Len(v.rows)

\* st.markdown(f"### Showing {filtered_df.shape[0]} of {df.shape[0]} records")
\* st.dataframe(filtered_df); nl: then the Reset Filters button
Display ==
    /\ pc = "display"
    /\ IF ~HasShape(filtered_df)
       THEN /\ pc' = "crashed"
            /\ UNCHANGED <<event, page, all_records, requests, served, failed, df,
                           filtered_df, nl_query, filter_details, code, evals,
                           llmCalls, messages, shown>>
       ELSE IF variant = "nl" /\ event.type = "reset"
       THEN /\ nl_query' = <<>>
            /\ NewRun(NoEvent)
       ELSE /\ shown' = [kind |-> "shown", x |-> NRows(filtered_df),
                         y |-> Len(df.rows), view |-> filtered_df]
            /\ pc' = "idle"
            /\ UNCHANGED <<event, page, all_records, requests, served, failed, df,
                           filtered_df, nl_query, filter_details, code, evals,
                           llmCalls, messages>>
    /\ UNCHANGED <<variant, env, cache, threshold, probe>>


(***************************************************************************)
(* Between runs: the user acts on a widget, reloads the page, or the       *)
(* cache entry's time-to-live passes                                       *)
(***************************************************************************)
Search ==
    /\ pc = "idle"
    /\ variant \in {"nl", "fuzzy"}
    /\ \E q \in Queries : NewRun([type |-> "search", text |-> q])
    /\ UNCHANGED <<variant, env, cache, nl_query, threshold, probe>>

ResetFilters ==
    /\ pc = "idle"
    /\ variant \in {"nl", "fuzzy"}
    /\ NewRun([type |-> "reset", text |-> <<>>])
    /\ UNCHANGED <<variant, env, cache, nl_query, threshold, probe>>

Slider ==
    /\ pc = "idle"
    /\ variant = "fuzzy"
    /\ \E t \in Thresholds \ {threshold} : threshold' = t
    /\ NewRun([type |-> "slider", text |-> <<>>])
    /\ UNCHANGED <<variant, env, cache, nl_query, probe>>

\* a page load opens a new session: session_state and the widgets start afresh
Reload ==
    /\ pc \in {"idle", "stopped", "crashed"}
    /\ nl_query' = <<>>
    /\ threshold' = SliderDefault
    /\ NewRun(NoEvent)
    /\ UNCHANGED <<variant, env, cache, probe>>

\* ttl=300: the entry is dropped once it is older than the time-to-live
CacheExpire ==
    /\ pc \in {"idle", "stopped", "crashed"}
    /\ cache # NoCache
    /\ cache' = NoCache
    /\ UNCHANGED <<variant, env, pc, event, page, all_records, requests, served,
                   failed, df, filtered_df, nl_query, threshold, filter_details,
                   code, evals, llmCalls, messages, shown, probe>>

EnvNames == {"NOCODB_API_TOKEN", "OPENAI_API_KEY"}

NoProbe == [kind |-> "none"]

Init ==
    /\ variant \in Variants
    /\ env \in [EnvNames -> BOOLEAN]
    /\ pc = "start"
    /\ event = NoEvent
    /\ page = 1
    /\ all_records = <<>>
    /\ requests = <<>>
    /\ served = <<>>
    /\ failed = "none"
    /\ cache = NoCache
    /\ df = EmptyTable
    /\ filtered_df = EmptyTable
    /\ nl_query = <<>>
    /\ threshold = SliderDefault
    /\ filter_details = None
    /\ code = <<>>
    /\ evals = <<>>
    /\ llmCalls = 0
    /\ messages = {}
    /\ shown = NoShow
    /\ probe = NoProbe

Next ==
    \/ CheckApiToken
    \/ CheckOpenAIKey
    \/ FetchCached
    \/ FetchBegin
    \/ FetchPage
    \/ FetchOnce
    \/ LoadData
    \/ Buttons
    \/ Translate
    \/ TranslateNl
    \/ ApplyFilter
    \/ Display
    \/ Search
    \/ ResetFilters
    \/ Slider
    \/ Reload
    \/ CacheExpire

Spec == Init /\ [][Next]_vars


(***************************************************************************)
(* Specifications of the pure functions: the inputs are drawn by Init and  *)
(* one action applies the function                                         *)
(***************************************************************************)
\* the strings over alphabet of length at most n
Strings(alphabet, n) == UNION {[1..k -> alphabet] : k \in 0..n}

\* the program's own state plays no part
Quiet ==
    /\ variant = "fuzzy"
    /\ env = [n \in EnvNames |-> TRUE]
    /\ pc = "probe"
    /\ event = NoEvent
    /\ page = 1
    /\ all_records = <<>>
    /\ requests = <<>>
    /\ served = <<>>
    /\ failed = "none"
    /\ cache = NoCache
    /\ df = EmptyTable
    /\ filtered_df = EmptyTable
    /\ nl_query = <<>>
    /\ threshold = SliderDefault
    /\ filter_details = None
    /\ code = <<>>
    /\ evals = <<>>
    /\ llmCalls = 0
    /\ messages = {}
    /\ shown = NoShow

ProgramVars == <<variant, env, pc, event, page, all_records, requests, served, failed,
                 cache, df, filtered_df, nl_query, threshold, filter_details, code,
                 evals, llmCalls, messages, shown>>

BalanceAlphabet == {"(", ")", "[", "df"}

InitBalance ==
    /\ Quiet
    /\ probe \in {[kind |-> "balance", s |-> s, done |-> FALSE, once |-> <<>>, twice |-> <<>>] :
                     s \in Strings(BalanceAlphabet, MaxLen)}

Balance ==
    /\ probe.kind = "balance"
    /\ ~probe.done
    /\ probe' = [probe EXCEPT !.done = TRUE,
                              !.once = balance_parentheses(probe.s),
                              !.twice = balance_parentheses(balance_parentheses(probe.s))]
    /\ UNCHANGED ProgramVars

SpecBalance == InitBalance /\ [][Balance]_vars

CodeAlphabet == {"(", ")", "[", "]", "df", "mask", "rev", "del", "dup"}

NotApplied(t) == [result |-> None, df |-> t, error |-> FALSE, evals |-> <<>>]

\* the Table of the pure-function specifications: one short page, as fetched
ProbeTable == DataFrame(Page(1, 3))

InitApply ==
    /\ Quiet
    /\ probe \in {[kind |-> "apply", T |-> ProbeTable, s |-> s, done |-> FALSE,
                   r |-> NotApplied(ProbeTable)] : s \in Strings(CodeAlphabet, MaxLen)}

Apply ==
    /\ probe.kind = "apply"
    /\ ~probe.done
    /\ probe' = [probe EXCEPT !.done = TRUE, !.r = apply_filter_code(probe.T, probe.s)]
    /\ UNCHANGED ProgramVars

SpecApply == InitApply /\ [][Apply]_vars

QueryAlphabet == {" ", "q"}

NotTranslated == [ret |-> None, called |-> FALSE, error |-> FALSE]

InitTranslate ==
    /\ Quiet
    /\ probe \in {[kind |-> "translate", variant |-> "fuzzy", q |-> q, outcome |-> o,
                   done |-> FALSE, r |-> NotTranslated] :
                     q \in Strings(QueryAlphabet, MaxLen), o \in LlmOutcomes}
              \cup {[kind |-> "translate", variant |-> "nl", q |-> q, outcome |-> o,
                     done |-> FALSE, r |-> NotTranslated] :
                     q \in Strings(QueryAlphabet, MaxLen), o \in NlOutcomes}

TranslateProbe ==
    /\ probe.kind = "translate"
    /\ ~probe.done
    /\ probe' = [probe EXCEPT !.done = TRUE,
                              !.r = IF probe.variant = "fuzzy"
                                    THEN convert_nl_to_query(probe.q, probe.outcome)
                                    ELSE convert_nl_to_query_nl(probe.q, probe.outcome)]
    /\ UNCHANGED ProgramVars

SpecTranslate == InitTranslate /\ [][TranslateProbe]_vars


(***************************************************************************)
(* Properties of the fetch and of the start of a run (specification Spec)  *)
(***************************************************************************)
\* the pages served so far, one after the other
RECURSIVE Flatten(_)
Flatten(pages) == IF pages = <<>> THEN <<>> ELSE Head(pages) \o Flatten(Tail(pages))

AllFull(pages) == \A k \in DOMAIN pages : Len(pages[k]) = limit

\* every page before the last is full and the last one is short
EndsShort(pages) ==
    /\ pages # <<>>
    /\ AllFull(SubSeq(pages, 1, Len(pages) - 1))
    /\ Len(pages[Len(pages)]) < limit

InOrder(reqs) == \A k \in DOMAIN reqs : reqs[k] = k

\* C1: in the paginated variants, when no request fails, the pages are requested
\* in the order 1, 2, 3, ...; while the loop runs every page served was full and
\* all_records is their concatenation; once a page shorter than 100 records
\* (or empty) has been served the loop has ended with no further request, and
\* the Table returned holds the concatenation of all pages served, in order
\* (the empty Table when the first page is empty).
PaginationConcatenates ==
    (variant \in Paginated /\ failed = "none") =>
        /\ InOrder(requests)
        /\ Len(requests) = Len(served)
        /\ pc = "fetching" =>
              /\ AllFull(served)
              /\ page = Len(served) + 1
              /\ all_records = Flatten(served)
        /\ EndsShort(served) =>
              /\ pc # "fetching"
              /\ pc = "loaded" =>
                    /\ df = DataFrame(Flatten(served))
                    /\ cache = [kind |-> "Cached", value |-> df]

\* a fetch of two pages, the second one short, has returned
TwoPagesFetched ==
    /\ variant \in Paginated
    /\ pc = "loaded"
    /\ failed = "none"
    /\ Len(served) = 2
    /\ Len(served[2]) \in 1..(limit - 1)
    /\ Len(df.rows) = limit + Len(served[2])

\* C2: when the request for a page fails, whether with a transport failure or
\* with an HTTP status, no exception leaves the fetch, an error is reported
\* and the Table returned is empty.
FetchFailureIsolation ==
    (variant \in Paginated /\ failed # "none") =>
        /\ pc # "crashed"
        /\ "error: fetching data" \in messages
        /\ pc = "loaded" => df = EmptyTable

\* a credential the variant requires is not set
RequiredMissing ==
    \/ ~env["NOCODB_API_TOKEN"]
    \/ variant \in NeedsOpenAI /\ ~env["OPENAI_API_KEY"]

\* C9: in every variant, a run started without a required credential issues
\* no HTTP request and no language-model call: it stays in the credential
\* checks until it has halted, and it halts with the condition reported.
HaltBeforeFetch ==
    RequiredMissing =>
        /\ requests = <<>>
        /\ served = <<>>
        /\ llmCalls = 0
        /\ cache = NoCache
        /\ pc \in {"start", "check_key", "stopped", "exited"}
        /\ pc \in {"stopped", "exited"} =>
              \/ "error: NOCODB_API_TOKEN is not set" \in messages
              \/ "warning: OpenAI API Key is missing" \in messages

\* the fuzzy variant has halted on the missing OpenAI key, the token being set
HaltedOnMissingKey ==
    /\ variant = "fuzzy"
    /\ env["NOCODB_API_TOKEN"]
    /\ ~env["OPENAI_API_KEY"]
    /\ pc = "stopped"
    /\ "warning: OpenAI API Key is missing" \in messages
    /\ requests = <<>>

\* the names an expression may look up
Whitelist(v) ==
    {"df", "isinstance", "str", "int", "float"} \cup (IF v = "fuzzy" THEN {"fuzz"} ELSE {})

\* C10: in every variant that evaluates a model-produced expression, every
\* evaluation, the first and the repaired retry alike, sees no name other than
\* df, isinstance, str, int, float and (fuzzy variant) fuzz.
RestrictedNamespace ==
    \A k \in DOMAIN evals : evals[k].names \subseteq Whitelist(variant)


(***************************************************************************)
(* Properties of apply_filter_code (specification SpecApply)               *)
(***************************************************************************)
Applying == probe.kind = "apply" /\ probe.done

Occurrences(s, tok) == Cardinality({i \in DOMAIN s : s[i] = tok})

\* s followed by one ")" for each "(" that ")" does not match in number
Closed(s) ==
    LET missing == Occurrences(s, "(") - Occurrences(s, ")")
    IN  s \o [i \in 1..(IF missing > 0 THEN missing ELSE 0) |-> ")"]

\* the open and close counts agree, of the parentheses at the least
BracketsBalance(s) == Occurrences(s, "(") = Occurrences(s, ")")

\* a is b with elements left out
RECURSIVE IsSubsequence(_, _)
IsSubsequence(a, b) ==
    IF a = <<>> THEN TRUE
    ELSE IF b = <<>> THEN FALSE
    ELSE IF Head(a) = Head(b) THEN IsSubsequence(Tail(a), Tail(b))
    ELSE IsSubsequence(a, Tail(b))

\* what r records against the outcome of the first evaluation
FirstAgrees(r, s, first) ==
    /\ r.evals[1].code = s
    /\ (first.st = "raise") <=> (Len(r.evals) = 2)
    /\ first.st = "ok" => (~r.error /\ r.result = first.val)

\* what r records against the outcome of the retry
RetryAgrees(r, second) ==
    /\ r.error <=> (second.st = "raise")
    /\ r.result = IF second.st = "ok" THEN second.val ELSE r.df

\* C3 as stated: when the first evaluation fails the code evaluated next has
\* balanced bracket counts, and a failed retry returns the original Table.
RepairBalancesBrackets ==
    Applying =>
        /\ Len(probe.r.evals) \in {1, 2}
        /\ Len(probe.r.evals) = 2 => BracketsBalance(probe.r.evals[2].code)
        /\ probe.r.error => probe.r.result = probe.T

\* C3 as amended: apply evaluates the expression; if and only if that fails it
\* makes one repair pass, which appends one ")" for each "(" in excess of the
\* ")" and nothing else, and evaluates the repaired expression once; if the
\* retry fails too it reports an error and returns the Table object it was
\* given, as the evaluations left it.  At most two evaluations, and a value is
\* always returned.
RepairThenRetryOnce ==
    Applying =>
        /\ Len(probe.r.evals) \in {1, 2}
        /\ FirstAgrees(probe.r, probe.s, PyEval(probe.s, probe.T, SafeNames))
        /\ Len(probe.r.evals) = 2 =>
              /\ probe.r.evals[2].code = Closed(probe.s)
              /\ RetryAgrees(probe.r,
                     PyEval(Closed(probe.s), PyEval(probe.s, probe.T, SafeNames).df, SafeNames))
        /\ probe.r.error => Len(probe.r.evals) = 2

\* a first evaluation failed, the repair added a ")" and the retry succeeded
RepairedRetrySucceeds ==
    /\ Applying
    /\ Len(probe.r.evals) = 2
    /\ probe.r.evals[2].code # probe.r.evals[1].code
    /\ ~probe.r.error
    /\ IsTable(probe.r.result)

\* C4: after apply(T, D) has returned, T is what it was before the call.
FilterImmutability == Applying => probe.r.df = probe.T

\* C5: the value apply returns is a Table whose rows are rows of T in T's
\* order, so the count shown for it does not exceed T's.
ResultIsSubset ==
    Applying =>
        /\ IsTable(probe.r.result)
        /\ IsSubsequence(probe.r.result.rows, probe.T.rows)
        /\ Len(probe.r.result.rows) <= Len(probe.T.rows)


(***************************************************************************)
(* Properties of convert_nl_to_query (specification SpecTranslate)         *)
(***************************************************************************)
Translating == probe.kind = "translate" /\ probe.done

AllBlank(q) == \A i \in DOMAIN q : q[i] = " "

\* the answer is no structured object that holds both fields
LacksField(o) ==
    ~(o.kind = "dict" /\ {"filter_code", "reasoning"} \subseteq o.keys)

\* C6: for a query that is not blank, translate of the fuzzy variant returns
\* null when the call fails, when the answer does not parse, and when the
\* parsed object lacks filter_code or reasoning: what it returns otherwise is
\* a structured object with both fields.
TranslateNullUnlessBothFields ==
    (Translating /\ probe.variant = "fuzzy" /\ ~AllBlank(probe.q)) =>
        (LacksField(probe.outcome) => probe.r.ret = None)

\* C7: for a query that is empty or all blanks, translate returns null and
\* makes no language-model call, in both variants that translate.
BlankQueryNoCall ==
    (Translating /\ AllBlank(probe.q)) =>
        (probe.r.ret = None /\ ~probe.r.called /\ ~probe.r.error)

\* a query of blanks has been translated
BlankQueryTranslated ==
    /\ Translating
    /\ probe.q # <<>>
    /\ AllBlank(probe.q)
    /\ probe.r.ret = None
    /\ ~probe.r.called


(***************************************************************************)
(* Properties of balance_parentheses (specification SpecBalance)           *)
(***************************************************************************)
Balanced == probe.kind = "balance" /\ probe.done

\* C8: repairing a repaired string changes nothing; the repair keeps s as a
\* prefix and appends only ")"; it returns s itself when s has no more "("
\* than ")".
RepairIdempotent ==
    Balanced =>
        /\ probe.twice = probe.once
        /\ Len(probe.once) >= Len(probe.s)
        /\ SubSeq(probe.once, 1, Len(probe.s)) = probe.s
        /\ \A i \in (Len(probe.s) + 1)..Len(probe.once) : probe.once[i] = ")"
        /\ Occurrences(probe.s, "(") <= Occurrences(probe.s, ")") => probe.once = probe.s

\* a string with an unmatched "(" has been repaired
RepairAppended ==
    /\ Balanced
    /\ probe.once # probe.s
    /\ probe.twice = probe.once


(***************************************************************************)
(* Properties of a whole run of the fuzzy variant (specification Spec)     *)
(***************************************************************************)
\* what a run shows for the outcome r of apply_filter_code
ShownFor(r) ==
    [kind |-> "shown", x |-> NRows(r.result), y |-> Len(r.df.rows), view |-> r.result]

\* what a run shows when no filter is applied to T
ShownWhole(T) ==
    [kind |-> "shown", x |-> Len(T.rows), y |-> Len(T.rows), view |-> T]

\* the view of Table T under stored query q, threshold th and this run's directive fd
ViewOf(T, q, th, fd) ==
    IF Strip(q) = <<>> \/ fd = None
    THEN ShownWhole(T)
    ELSE ShownFor(apply_filter_code(T, Format(fd.filter_code, th).out))

WellFormed(fd) == fd.kind = "dict" /\ {"filter_code", "reasoning"} \subseteq fd.keys

\* C12: in the fuzzy variant, once translate has returned a well-formed
\* directive, the substitution of the threshold and apply complete with a
\* Table to display: the run does not end in an uncaught exception.
PipelineNeverCrashes ==
    (variant = "fuzzy" /\ WellFormed(filter_details)) => pc # "crashed"

====
